---- MODULE Spec2Model ----
(***************************************************************************)
(* Detection smoothing and detection loop of the Raspberry Pi object       *)
(* detection controller (src/main_controller.py), with the frame slot of   *)
(* the camera manager (src/camera/camera_manager.py).                      *)
(*                                                                         *)
(* Time.  time.time() is a float number of seconds; the model counts time  *)
(* in units of 0.05 s, so detection_interval (0.5 s) is 10 units, the      *)
(* smoothing window (2.0 s) is 40 units and time.sleep(0.1) is 2 units.    *)
(* The clock never runs backwards.                                         *)
(*                                                                         *)
(* Confidences.  A confidence is a float in [0,1]; the model counts it in  *)
(* hundredths (0..100).  A mean of confidences is kept as an exact         *)
(* fraction in lowest terms, [num, den], so that equality of two means is  *)
(* numeric equality; float rounding of sum()/len() is not modelled.        *)
(***************************************************************************)
EXTENDS Integers, Sequences, FiniteSets

VARIABLES
    pc,                   \* control point of run() / run_detection_loop()
    is_running,           \* ObjectDetectionController.is_running
    cam_is_running,       \* CameraManager.is_running
    camera_process,       \* CameraManager.camera_process ("None", "running", "exited")
    current_frame,        \* CameraManager.current_frame ("None" or a frame)
    model_loaded,         \* ModelLoader.is_loaded()
    detection_history,    \* ObjectDetectionController.detection_history
    last_detection_time,  \* local of run_detection_loop
    clock,                \* what time.time() returns now
    frame,                \* local of run_detection_loop
    current_time,         \* local of run_detection_loop (line 279)
    class_name,           \* local of run_detection_loop (line 285)
    confidence,           \* local of run_detection_loop (line 285)
    smooth_time,          \* current_time of get_smoothed_detection (line 238)
    recent,               \* recent_detections of get_smoothed_detection
    display_class,        \* local of run_detection_loop (line 297)
    display_confidence,   \* local of run_detection_loop (line 297)
    shown,                \* what draw_detection_info was last asked to draw
    window_open,          \* a cv2 window is on the screen
    appended,             \* history variable: every sample ever appended
    predict_calls,        \* history variable: number of ModelLoader.predict calls
    show_camera_window,   \* ObjectDetectionController.show_camera_window
    current_detection,    \* CameraWindow.current_detection (None or a pair)
    detection_lock,       \* CameraWindow.detection_lock: who holds it
    window_class,         \* "CameraWindow" or "SimpleCameraWindow" (no lock)
    writer_pc,            \* control point of a thread in update_detection
    writer_arg,           \* (class_name, confidence) of that call
    reader_pc,            \* control point of the window thread's overlay
    reader_detection,     \* class_name, confidence of draw_confidence_overlay
    last_write,           \* history variable: the pair last stored in the slot
    got,                  \* outcome of the last get_current_detection call
    buffers,              \* the numpy arrays: buffer id -> contents
    render_frame,         \* frame argument of the last draw call (a buffer id)
    render_before,        \* history variable: contents of that frame at the call
    display_frame,        \* what the last draw call returned (a buffer id)
    stop_pc,              \* control point of each thread in stop_camera
    stop_calls,           \* stop_camera calls each thread has completed
    terminate_calls       \* history variable: Popen.terminate() calls

vars == <<pc, is_running, cam_is_running, camera_process, current_frame,
          model_loaded, window_open,
          detection_history, last_detection_time, clock, frame, current_time,
          class_name, confidence, smooth_time, recent, display_class,
          display_confidence, shown, appended, predict_calls,
          show_camera_window, current_detection, detection_lock, window_class,
          writer_pc, writer_arg, reader_pc, reader_detection, last_write, got,
          buffers, render_frame, render_before, display_frame,
          stop_pc, stop_calls, terminate_calls>>

-----------------------------------------------------------------------------
(* Program constants *)

\* self.max_history is 10 in the source (line 43); the model runs the same
\* code with a smaller capacity so that eviction happens within the bounds.
max_history == 3

detection_interval == 10     \* 0.5 s  (line 268)
smoothing_window == 40       \* 2.0 s  (line 241)
sleep_time == 2              \* 0.1 s  (lines 276, 326)
confidence_threshold == 50   \* 0.5    (line 41)

(* Bounds of the model *)
MaxTime == 50                \* the clock stops at MaxTime
ThrottleEnd == 55            \* the clock stops here in the throttling scenario

\* time.time() at start-up: seconds since 1970, far more than detection_interval
StartTime == detection_interval

\* time a step of the loop may take (none, or 0.5 s)
Elapsed == {0, 10}

\* what ModelLoader.predict returns: a label of labels.txt with the top score,
\* or ("Error", 0.0) when inference raised (model_loader.py lines 135-137)
Predictions == {<<"A", 90>>, <<"B", 80>>, <<"Error", 0>>}

-----------------------------------------------------------------------------
(* Arithmetic helpers *)

RECURSIVE GCD(_, _)
GCD(a, b) == IF b = 0 THEN a ELSE GCD(b, a % b)

\* the float n/d, as a fraction in lowest terms
Rat(n, d) == LET g == GCD(n, d) IN [num |-> n \div g, den |-> d \div g]

\* r >= c for a fraction r and a number of hundredths c
RatGE(r, c) == r.num >= c * r.den

RECURSIVE sum(_)
sum(s) == IF s = <<>> THEN 0 ELSE Head(s) + sum(Tail(s))

NoDetection == <<"No detection", Rat(0, 1)>>

-----------------------------------------------------------------------------
(* update_detection_history (lines 213-225): t is what time.time() returns *)

\* Faulty variants of update_detection_history: no eviction; list.pop()
\* instead of list.pop(0); insert(0, ...) instead of append.
update_detection_history_unbounded(h, name, conf, t) ==
    Append(h, <<name, conf, t>>)

update_detection_history_pop_last(h, name, conf, t) ==
    LET h1 == Append(h, <<name, conf, t>>)
    IN  IF Len(h1) > max_history THEN SubSeq(h1, 1, Len(h1) - 1) ELSE h1

update_detection_history_prepend(h, name, conf, t) ==
    LET h1 == <<(<<name, conf, t>>)>> \o h
    IN  IF Len(h1) > max_history THEN SubSeq(h1, 1, Len(h1) - 1) ELSE h1

update_detection_history(h, name, conf, t) ==
    LET h1 == Append(h, <<name, conf, t>>)
    IN  IF Len(h1) > max_history THEN Tail(h1) ELSE h1

-----------------------------------------------------------------------------
(* get_smoothed_detection (lines 227-258) *)

\* Faulty variant of the window test: "<=" instead of "<".
RECURSIVE recent_detections_inclusive(_, _)
recent_detections_inclusive(h, now) ==
    IF h = <<>> THEN <<>>
    ELSE LET s == Head(h)
             rest == recent_detections_inclusive(Tail(h), now)
         IN  IF now - s[3] <= smoothing_window
             THEN <<(<<s[1], s[2]>>)>> \o rest
             ELSE rest

\* lines 239-242: the (name, conf) of the samples younger than 2.0 s, in order
RECURSIVE recent_detections(_, _)
recent_detections(h, now) ==
    IF h = <<>> THEN <<>>
    ELSE LET s == Head(h)
             rest == recent_detections(Tail(h), now)
         IN  IF now - s[3] < smoothing_window
             THEN <<(<<s[1], s[2]>>)>> \o rest
             ELSE rest

\* lines 248-250: the keys of class_counts, in the order the dict got them
RECURSIVE class_keys(_)
class_keys(r) ==
    IF r = <<>> THEN <<>>
    ELSE LET init == class_keys(SubSeq(r, 1, Len(r) - 1))
             name == r[Len(r)][1]
         IN  IF \E i \in 1..Len(init) : init[i] = name
             THEN init
             ELSE Append(init, name)

\* lines 248-250: class_counts[name]
RECURSIVE class_counts(_, _)
class_counts(r, name) ==
    IF r = <<>> THEN 0
    ELSE (IF Head(r)[1] = name THEN 1 ELSE 0) + class_counts(Tail(r), name)

\* Faulty variant of max: the last key with the largest count.
RECURSIVE py_max_last(_, _)
py_max_last(keys, r) ==
    IF Len(keys) = 1 THEN keys[1]
    ELSE LET best == py_max_last(SubSeq(keys, 1, Len(keys) - 1), r)
             k == keys[Len(keys)]
         IN  IF class_counts(r, k) >= class_counts(r, best) THEN k ELSE best

\* max(keys, key=...): the first key, in iteration order, with the largest count
RECURSIVE py_max(_, _)
py_max(keys, r) ==
    IF Len(keys) = 1 THEN keys[1]
    ELSE LET best == py_max(SubSeq(keys, 1, Len(keys) - 1), r)
             k == keys[Len(keys)]
         IN  IF class_counts(r, k) > class_counts(r, best) THEN k ELSE best

\* Faulty variant of line 252: the label of the latest sample.
most_common_class_latest(r) == r[Len(r)][1]

\* line 252
most_common_class(r) == py_max(class_keys(r), r)

\* Faulty variant of line 255: the confidences of all recent samples.
class_confidences_all(r, cls) == [i \in 1..Len(r) |-> r[i][2]]

\* line 255
RECURSIVE class_confidences(_, _)
class_confidences(r, cls) ==
    IF r = <<>> THEN <<>>
    ELSE IF Head(r)[1] = cls
         THEN <<Head(r)[2]>> \o class_confidences(Tail(r), cls)
         ELSE class_confidences(Tail(r), cls)

\* Faulty variant of line 256: the sum, not divided by the count.
avg_confidence_total(confs) == Rat(sum(confs), 1)

\* line 256
avg_confidence(confs) == Rat(sum(confs), Len(confs))

\* Faulty variant: with nothing recent, the last sample is returned.
get_smoothed_detection_stale(h, now) ==
    IF h = <<>> THEN NoDetection
    ELSE LET r == recent_detections(h, now)
         IN  IF r = <<>> THEN <<h[Len(h)][1], Rat(h[Len(h)][2], 1)>>
             ELSE LET cls == most_common_class(r)
                  IN  <<cls, avg_confidence(class_confidences(r, cls))>>

get_smoothed_detection(h, now) ==
    IF h = <<>> THEN NoDetection
    ELSE LET r == recent_detections(h, now)
         IN  IF r = <<>> THEN NoDetection
             ELSE LET cls == most_common_class(r)
                  IN  <<cls, avg_confidence(class_confidences(r, cls))>>

-----------------------------------------------------------------------------
(* The objects around the loop: the camera window's detection slot, the     *)
(* frames (numpy arrays) and the threads that stop the camera.  Python's    *)
(* None is the empty tuple here.                                            *)

None == <<>>

\* the threads that call stop_camera: the controlling thread and the window
\* thread (run_window_threaded, camera_window.py lines 266-278)
Threads == {"main", "window"}

\* number of numpy arrays the model keeps
MaxBuffers == 3

\* what the draw functions put on a frame: nothing yet
NoPanel ==
    [by |-> "none", label |-> "", conf |-> [num |-> 0, den |-> 1], status |-> "",
     text_color |-> "", bar_color |-> "", bar_fill |-> 0]

FreeBuffer == [image |-> "free", panel |-> NoPanel]

slot_vars == <<detection_lock, window_class, writer_pc, writer_arg, reader_pc,
               reader_detection, last_write, got>>
render_vars == <<buffers, render_frame, render_before, display_frame>>
stop_vars == <<stop_pc, stop_calls, terminate_calls>>
window_vars == <<show_camera_window, current_detection>>
ext_vars == <<slot_vars, render_vars, stop_vars>>

\* CameraWindow.__init__ (camera_window.py lines 28-34), no frame allocated,
\* nobody inside stop_camera
SlotInit ==
    /\ detection_lock = "None"
    /\ writer_pc = "idle"
    /\ writer_arg = None
    /\ reader_pc = "idle"
    /\ reader_detection = None
    /\ last_write = None
    /\ got = [outcome |-> "unset", value |-> None, slot |-> None]

RenderInit ==
    /\ buffers = [i \in 1..MaxBuffers |-> FreeBuffer]
    /\ render_frame = 0
    /\ render_before = FreeBuffer
    /\ display_frame = 0

StopInit ==
    /\ stop_pc = [t \in Threads |-> "idle"]
    /\ stop_calls = [t \in Threads |-> 0]
    /\ terminate_calls = 0

ExtInit ==
    /\ window_class = "CameraWindow"
    /\ SlotInit
    /\ RenderInit
    /\ StopInit

-----------------------------------------------------------------------------
(* State after construction (ObjectDetectionController.__init__, lines 23-43) *)

Constructed ==
    /\ pc = "idle"
    /\ is_running = FALSE
    /\ cam_is_running = FALSE
    /\ camera_process = "None"
    /\ current_frame = "None"
    /\ model_loaded = FALSE
    /\ detection_history = <<>>
    /\ last_detection_time = 0
    /\ clock = StartTime
    /\ frame = "None"
    /\ current_time = 0
    /\ class_name = "None"
    /\ confidence = 0
    /\ smooth_time = 0
    /\ recent = <<>>
    /\ display_class = "None"
    /\ display_confidence = Rat(0, 1)
    /\ shown = <<"None", Rat(0, 1)>>
    /\ window_open = FALSE
    /\ appended = <<>>
    /\ predict_calls = 0

Init ==
    /\ Constructed
    /\ show_camera_window = FALSE
    /\ current_detection = None
    /\ ExtInit

\* the controller's own state (everything of the loop but the camera manager)
controller_vars ==
    <<pc, is_running, model_loaded, detection_history, last_detection_time,
      clock, frame, current_time, class_name, confidence, smooth_time, recent,
      display_class, display_confidence, shown, window_open, appended,
      predict_calls, show_camera_window>>

camera_vars == <<cam_is_running, camera_process, current_frame>>
display_vars == <<shown, window_open>>
history_vars == <<detection_history, appended>>
detect_locals == <<current_time, class_name, confidence>>
smooth_locals == <<smooth_time, recent, display_class, display_confidence>>

-----------------------------------------------------------------------------
(* run() (lines 337-370) *)

\* lines 343-356: the model files exist and initialize_camera() succeeds, or not
InitializeCamera ==
    /\ pc = "idle"
    /\ \E ok \in BOOLEAN :
          /\ cam_is_running' = ok
          /\ camera_process' = IF ok THEN "running" ELSE "None"
          /\ pc' = IF ok THEN "init_model" ELSE "failed"
    /\ UNCHANGED <<is_running, current_frame, model_loaded, history_vars,
                   last_detection_time, clock, frame, detect_locals,
                   smooth_locals, display_vars, predict_calls>>
    /\ UNCHANGED <<window_vars, ext_vars>>

\* Faulty variant of lines 360-361: the result of initialize_model is ignored.
InitializeModelUnchecked ==
    /\ pc = "init_model"
    /\ \E ok \in BOOLEAN : model_loaded' = ok
    /\ is_running' = TRUE
    /\ pc' = "top"
    /\ last_detection_time' = 0
    /\ UNCHANGED <<camera_vars, history_vars, clock, frame, detect_locals,
                   smooth_locals, display_vars, predict_calls>>
    /\ UNCHANGED <<window_vars, ext_vars>>

\* lines 359-361 (run) and 394-396 (run_with_camera_window); run() then enters
\* run_detection_loop (lines 265-268), run_with_camera_window() goes on to
\* initialize_camera_window.  The two differ only from here on, so the choice
\* between them is made here.
InitializeModel ==
    /\ pc = "init_model"
    /\ \E ok \in BOOLEAN :
          /\ model_loaded' = ok
          /\ \E with_window \in BOOLEAN :
                /\ is_running' = (ok /\ ~with_window)
                /\ pc' = IF ~ok THEN "failed"
                         ELSE IF with_window THEN "init_window" ELSE "top"
    /\ last_detection_time' = 0
    /\ UNCHANGED <<camera_vars, history_vars, clock, frame, detect_locals,
                   smooth_locals, display_vars, predict_calls>>
    /\ UNCHANGED <<window_vars, ext_vars>>

\* lines 398-410: initialize_camera_window() succeeds or not; a camera window
\* that fails to start is only warned about; then run_detection_loop
InitializeCameraWindow ==
    /\ pc = "init_window"
    /\ \E ok \in BOOLEAN :
          /\ is_running' = ok
          /\ pc' = IF ok THEN "top" ELSE "failed"
          /\ \E started \in BOOLEAN : show_camera_window' = (ok /\ started)
    /\ last_detection_time' = 0
    /\ UNCHANGED <<camera_vars, model_loaded, history_vars, clock, frame,
                   detect_locals, smooth_locals, display_vars, predict_calls,
                   current_detection, ext_vars>>

-----------------------------------------------------------------------------
(* The camera process (libcamera-vid, camera_manager.py lines 61-65) exits  *)
(* or stops producing output: camera_process.poll() is no longer None.      *)

CameraDies ==
    /\ camera_process = "running"
    /\ camera_process' = "exited"
    /\ UNCHANGED <<pc, is_running, cam_is_running, current_frame, model_loaded,
                   history_vars, last_detection_time, clock, frame,
                   detect_locals, smooth_locals, display_vars, predict_calls>>
    /\ UNCHANGED <<window_vars, ext_vars>>

-----------------------------------------------------------------------------
(* CameraManager.get_frame (camera_manager.py lines 89-116), called by a    *)
(* client of the camera manager: it stores a decoded frame in the slot.     *)

GetFrame ==
    /\ cam_is_running
    /\ camera_process = "running"
    /\ current_frame = "None"
    /\ current_frame' = "F"
    /\ UNCHANGED <<pc, is_running, cam_is_running, camera_process, model_loaded,
                   history_vars,
                   last_detection_time, clock, frame, detect_locals,
                   smooth_locals, display_vars, predict_calls>>
    /\ UNCHANGED <<window_vars, ext_vars>>

-----------------------------------------------------------------------------
(* run_detection_loop (lines 260-335) *)

\* Faulty variant of line 270: the loop does not test is_running.
LoopTopIgnoresStop(d) ==
    /\ pc = "top"
    /\ clock' = clock + d
    /\ frame' = current_frame
    /\ pc' = IF current_frame = "None" THEN "sleep" ELSE "have_frame"
    /\ UNCHANGED <<is_running, camera_vars, model_loaded, history_vars,
                   last_detection_time, detect_locals, smooth_locals, display_vars,
                   predict_calls>>
    /\ UNCHANGED <<window_vars, ext_vars>>

\* lines 270-277: the while test, then get_latest_frame()
LoopTop(d) ==
    /\ pc = "top"
    /\ clock' = clock + d
    /\ IF ~is_running
       THEN pc' = "cleanup" /\ frame' = frame
       ELSE /\ frame' = current_frame
            /\ pc' = IF current_frame = "None" THEN "sleep" ELSE "have_frame"
    /\ UNCHANGED <<is_running, camera_vars, model_loaded, history_vars,
                   last_detection_time, detect_locals, smooth_locals, display_vars,
                   predict_calls>>
    /\ UNCHANGED <<window_vars, ext_vars>>

\* Faulty variant of lines 275-277: without a frame the loop goes on to draw.
SleepThenDraw(d) ==
    /\ pc = "sleep"
    /\ d >= sleep_time
    /\ clock' = clock + d
    /\ pc' = "smooth"
    /\ UNCHANGED <<is_running, camera_vars, model_loaded, history_vars,
                   last_detection_time, frame, detect_locals, smooth_locals,
                   display_vars, predict_calls>>
    /\ UNCHANGED <<window_vars, ext_vars>>

\* lines 275-277: no frame; time.sleep(0.1), then the next iteration
Sleep(d) ==
    /\ pc = "sleep"
    /\ d >= sleep_time
    /\ clock' = clock + d
    /\ pc' = "top"
    /\ UNCHANGED <<is_running, camera_vars, model_loaded, history_vars,
                   last_detection_time, frame, detect_locals, smooth_locals,
                   display_vars, predict_calls>>
    /\ UNCHANGED <<window_vars, ext_vars>>

\* Faulty variant of lines 279-283: detection on every iteration.
ReadTimeUnthrottled(d) ==
    /\ pc = "have_frame"
    /\ clock' = clock + d
    /\ current_time' = clock
    /\ pc' = IF model_loaded THEN "predict" ELSE "smooth"
    /\ UNCHANGED <<is_running, camera_vars, model_loaded, history_vars,
                   last_detection_time, frame, class_name, confidence,
                   smooth_locals, display_vars, predict_calls>>
    /\ UNCHANGED <<window_vars, ext_vars>>

\* Faulty variant of lines 279-297: nothing is drawn unless detection ran.
ReadTimeSkipsDraw(d) ==
    /\ pc = "have_frame"
    /\ clock' = clock + d
    /\ IF clock - last_detection_time >= detection_interval /\ model_loaded
       THEN pc' = "predict" /\ current_time' = clock
       ELSE pc' = "top" /\ current_time' = 0
    /\ UNCHANGED <<is_running, camera_vars, model_loaded, history_vars,
                   last_detection_time, frame, class_name, confidence,
                   smooth_locals, display_vars, predict_calls>>
    /\ UNCHANGED <<window_vars, ext_vars>>

\* lines 279-283: read the clock and decide whether detection is due
ReadTime(d) ==
    /\ pc = "have_frame"
    /\ clock' = clock + d
    /\ current_time' = clock
    /\ pc' = IF clock - last_detection_time >= detection_interval /\ model_loaded
             THEN "predict" ELSE "smooth"
    /\ UNCHANGED <<is_running, camera_vars, model_loaded, history_vars,
                   last_detection_time, frame, class_name, confidence,
                   smooth_locals, display_vars, predict_calls>>
    /\ UNCHANGED <<window_vars, ext_vars>>

\* line 285: class_name, confidence = self.model.predict(frame)
Predict(d) ==
    /\ pc = "predict"
    /\ clock' = clock + d
    /\ \E p \in Predictions : class_name' = p[1] /\ confidence' = p[2]
    /\ predict_calls' = predict_calls + 1
    /\ pc' = "update"
    /\ UNCHANGED <<is_running, camera_vars, model_loaded, history_vars,
                   last_detection_time, frame, current_time, smooth_locals,
                   display_vars>>
    /\ UNCHANGED <<window_vars, ext_vars>>

\* Faulty variant of lines 288-294: last_detection_time is not updated.
UpdateHistoryNoStamp(d) ==
    /\ pc = "update"
    /\ clock' = clock + d
    /\ detection_history' =
          update_detection_history(detection_history, class_name, confidence, clock)
    /\ appended' = Append(appended, <<class_name, confidence, clock>>)
    /\ pc' = "smooth"
    /\ UNCHANGED <<is_running, camera_vars, model_loaded, frame, detect_locals,
                   last_detection_time, smooth_locals, display_vars, predict_calls>>
    /\ current_detection' = IF show_camera_window
                            THEN <<class_name, confidence>>
                            ELSE current_detection
    /\ UNCHANGED <<show_camera_window, ext_vars>>

\* lines 288-294: update_detection_history, the camera window's
\* update_detection when it is shown, then last_detection_time
UpdateHistory(d) ==
    /\ pc = "update"
    /\ clock' = clock + d
    /\ detection_history' =
          update_detection_history(detection_history, class_name, confidence, clock)
    /\ appended' = Append(appended, <<class_name, confidence, clock>>)
    /\ last_detection_time' = current_time
    /\ pc' = "smooth"
    /\ UNCHANGED <<is_running, camera_vars, model_loaded, frame, detect_locals,
                   smooth_locals, display_vars, predict_calls>>
    /\ current_detection' = IF show_camera_window
                            THEN <<class_name, confidence>>
                            ELSE current_detection
    /\ UNCHANGED <<show_camera_window, ext_vars>>

\* Faulty variant of get_smoothed_detection: it drops the expired samples
\* from self.detection_history.
RECURSIVE unexpired(_, _)
unexpired(h, now) ==
    IF h = <<>> THEN <<>>
    ELSE IF now - Head(h)[3] < smoothing_window
         THEN <<Head(h)>> \o unexpired(Tail(h), now)
         ELSE unexpired(Tail(h), now)

SmoothPruning(d) ==
    /\ pc = "smooth"
    /\ clock' = clock + d
    /\ smooth_time' = clock
    /\ recent' = recent_detections(detection_history, clock)
    /\ display_class' = get_smoothed_detection(detection_history, clock)[1]
    /\ display_confidence' = get_smoothed_detection(detection_history, clock)[2]
    /\ detection_history' = unexpired(detection_history, clock)
    /\ pc' = "draw"
    /\ UNCHANGED <<is_running, camera_vars, model_loaded, appended,
                   last_detection_time, frame, detect_locals, display_vars,
                   predict_calls>>
    /\ UNCHANGED <<window_vars, ext_vars>>

\* line 297: display_class, display_confidence = self.get_smoothed_detection()
Smooth(d) ==
    /\ pc = "smooth"
    /\ clock' = clock + d
    /\ smooth_time' = clock
    /\ recent' = recent_detections(detection_history, clock)
    /\ display_class' = get_smoothed_detection(detection_history, clock)[1]
    /\ display_confidence' = get_smoothed_detection(detection_history, clock)[2]
    /\ pc' = "draw"
    /\ UNCHANGED <<is_running, camera_vars, model_loaded, history_vars,
                   last_detection_time, frame, detect_locals, display_vars,
                   predict_calls>>
    /\ UNCHANGED <<window_vars, ext_vars>>

\* The locals of an iteration are dead once it ends (each is assigned again
\* before it is read): the model clears them there.
EndIteration ==
    /\ current_time' = 0
    /\ class_name' = "None"
    /\ confidence' = 0
    /\ smooth_time' = 0
    /\ recent' = <<>>
    /\ display_class' = "None"
    /\ display_confidence' = Rat(0, 1)

\* lines 300-319: draw, show, read the key ('q' ends the loop)
Display(d) ==
    /\ pc = "draw"
    /\ clock' = clock + d
    /\ shown' = IF RatGE(display_confidence, confidence_threshold)
                THEN <<display_class, display_confidence>>
                ELSE NoDetection
    /\ window_open' = TRUE
    /\ \E quit \in BOOLEAN : is_running' = (is_running /\ ~quit)
    /\ pc' = "top"
    /\ EndIteration
    /\ UNCHANGED <<camera_vars, model_loaded, history_vars,
                   last_detection_time, frame, predict_calls>>
    /\ UNCHANGED <<window_vars, ext_vars>>

\* Faulty variant of lines 324-326: an exception ends the loop.
DisplayRaisesStops(d) ==
    /\ pc = "draw"
    /\ clock' = clock + d
    /\ pc' = "handler"
    /\ is_running' = FALSE
    /\ EndIteration
    /\ UNCHANGED <<camera_vars, model_loaded, history_vars,
                   last_detection_time, frame, display_vars, predict_calls>>
    /\ UNCHANGED <<window_vars, ext_vars>>

\* lines 300-307 raise (draw_detection_info or cv2.imshow), caught at line 324
DisplayRaises(d) ==
    /\ pc = "draw"
    /\ clock' = clock + d
    /\ pc' = "handler"
    /\ EndIteration
    /\ UNCHANGED <<is_running, camera_vars, model_loaded, history_vars,
                   last_detection_time, frame, display_vars, predict_calls>>
    /\ UNCHANGED <<window_vars, ext_vars>>

\* lines 325-326: the handler prints and sleeps 0.1 s, then the next iteration
HandlerSleep(d) ==
    /\ pc = "handler"
    /\ d >= sleep_time
    /\ clock' = clock + d
    /\ pc' = "top"
    /\ UNCHANGED <<is_running, camera_vars, model_loaded, history_vars,
                   last_detection_time, frame, detect_locals, smooth_locals,
                   display_vars, predict_calls>>
    /\ UNCHANGED <<window_vars, ext_vars>>

\* the control points inside the try block (lines 271-319)
TryBlock == {"sleep", "have_frame", "predict", "update", "smooth", "draw"}

\* lines 321-323: KeyboardInterrupt inside the try block
Interrupt ==
    /\ pc \in TryBlock
    /\ is_running' = FALSE
    /\ pc' = "top"
    /\ EndIteration
    /\ UNCHANGED <<camera_vars, model_loaded, history_vars, clock,
                   last_detection_time, frame, display_vars, predict_calls>>
    /\ UNCHANGED <<window_vars, ext_vars>>

\* KeyboardInterrupt during the handler's sleep (line 326), outside the try
\* block: it leaves run_detection_loop, and run() (lines 364-368) catches
\* Exception only.
InterruptInHandler ==
    /\ pc = "handler"
    /\ pc' = "raised"
    /\ UNCHANGED <<is_running, camera_vars, model_loaded, history_vars, clock,
                   last_detection_time, frame, detect_locals, smooth_locals,
                   display_vars, predict_calls>>
    /\ UNCHANGED <<window_vars, ext_vars>>

\* lines 328-335: cv2.destroyAllWindows, then CameraManager.stop_camera
\* (camera_manager.py lines 75-87)
Cleanup(d) ==
    /\ pc = "cleanup"
    /\ clock' = clock + d
    /\ window_open' = FALSE
    /\ cam_is_running' = FALSE
    /\ camera_process' = "None"
    /\ pc' = "stopped"
    /\ UNCHANGED <<is_running, current_frame, model_loaded, history_vars,
                   last_detection_time, frame, detect_locals, smooth_locals,
                   shown, predict_calls>>
    /\ UNCHANGED <<window_vars, ext_vars>>

-----------------------------------------------------------------------------
(* The controller, with a client that feeds the camera's frame slot *)

Next ==
    \/ InitializeCamera
    \/ InitializeModel
    \/ InitializeCameraWindow
    \/ CameraDies
    \/ GetFrame
    \/ Interrupt
    \/ InterruptInHandler
    \/ \E d \in Elapsed :
          /\ clock + d <= MaxTime
          /\ \/ LoopTop(d)
             \/ Sleep(d)
             \/ ReadTime(d)
             \/ Predict(d)
             \/ UpdateHistory(d)
             \/ Smooth(d)
             \/ Display(d)
             \/ DisplayRaises(d)
             \/ HandlerSleep(d)
             \/ Cleanup(d)

Spec == Init /\ [][Next]_vars

-----------------------------------------------------------------------------
(* The controller as the repository runs it: every caller of the camera    *)
(* manager (run_detection_loop, CameraWindow.run_window,                    *)
(* SimpleCameraWindow.run, run_camera_window.py) calls get_latest_frame,    *)
(* and none calls get_frame, so the client of Next is left out.             *)

\* time a step may take here: none, a sleep of 0.1 s, or 0.5 s
OwnElapsed == {0, sleep_time, 10}

NextOwn ==
    \/ InitializeCamera
    \/ InitializeModel
    \/ InitializeCameraWindow
    \/ CameraDies
    \/ Interrupt
    \/ \E d \in OwnElapsed :
          /\ clock + d <= MaxTime
          /\ \/ LoopTop(d)
             \/ Sleep(d)
             \/ Cleanup(d)

SpecOwn == Init /\ [][NextOwn]_vars

-----------------------------------------------------------------------------
(* get_smoothed_detection as a function of the history and the clock:      *)
(* the loop is about to smooth, with any history the controller can hold   *)
(* (at most max_history samples, stamped in non-decreasing order).         *)

SmoothLabels == {"A", "B", "C"}
SmoothConfs == {80, 90, 95}
SmoothStamps == {0, 1, 40}     \* with the clocks below: ages 0, 1, 39, 40, 41
SmoothClocks == {40, 41}
SmoothSamples == SmoothLabels \X SmoothConfs \X SmoothStamps

Histories ==
    UNION { { h \in [1..n -> SmoothSamples] :
                \A i \in 1..(n - 1) : h[i][3] <= h[i + 1][3] } : n \in 0..max_history }

InitSmooth ==
    /\ pc = "smooth"
    /\ is_running = TRUE
    /\ cam_is_running = TRUE
    /\ camera_process = "running"
    /\ current_frame = "F"
    /\ model_loaded = TRUE
    /\ detection_history \in Histories
    /\ last_detection_time = 0
    /\ clock \in SmoothClocks
    /\ frame = "F"
    /\ current_time = 0
    /\ class_name = "None"
    /\ confidence = 0
    /\ smooth_time = 0
    /\ recent = <<>>
    /\ display_class = "None"
    /\ display_confidence = Rat(0, 1)
    /\ shown = <<"None", Rat(0, 1)>>
    /\ window_open = FALSE
    /\ appended = detection_history
    /\ predict_calls = Len(detection_history)
    /\ show_camera_window = FALSE
    /\ current_detection = None
    /\ ExtInit

NextSmooth == Smooth(0)

SpecSmooth == InitSmooth /\ [][NextSmooth]_vars

-----------------------------------------------------------------------------
(* The throttling scenario: the loop has just been entered, the frame slot *)
(* holds a frame on every tick, and one iteration takes exactly 0.05 s     *)
(* (one unit of time, spent showing the frame and waiting for the key).    *)

RunLength == 4 * detection_interval     \* the 2.0 s of the scenario

InitThrottle ==
    /\ pc = "top"
    /\ is_running = TRUE
    /\ cam_is_running = TRUE
    /\ camera_process = "running"
    /\ current_frame = "F"
    /\ model_loaded = TRUE
    /\ detection_history = <<>>
    /\ last_detection_time = 0
    /\ clock = StartTime
    /\ frame = "None"
    /\ current_time = 0
    /\ class_name = "None"
    /\ confidence = 0
    /\ smooth_time = 0
    /\ recent = <<>>
    /\ display_class = "None"
    /\ display_confidence = Rat(0, 1)
    /\ shown = <<"None", Rat(0, 1)>>
    /\ window_open = FALSE
    /\ appended = <<>>
    /\ predict_calls = 0
    /\ show_camera_window = FALSE
    /\ current_detection = None
    /\ ExtInit

NextThrottle ==
    \/ LoopTop(0)
    \/ ReadTime(0)
    \/ Predict(0)
    \/ UpdateHistory(0)
    \/ Smooth(0)
    \/ (clock + 1 <= ThrottleEnd /\ Display(1))
    \/ Cleanup(0)

SpecThrottle == InitThrottle /\ [][NextThrottle]_vars

-----------------------------------------------------------------------------
(* The camera window's detection slot: CameraWindow (camera_window.py),     *)
(* whose update_detection, draw_confidence_overlay and                      *)
(* get_current_detection take detection_lock, and SimpleCameraWindow        *)
(* (camera_window_simple.py), which has no lock.  One thread calls          *)
(* update_detection, the window thread draws the overlay.                   *)

\* what callers pass to update_detection
Detections == {<<"A", 90>>, <<"B", 80>>, <<"No model loaded", 0>>}

Locked == window_class = "CameraWindow"

\* line 82 (simple: line 51): the call, and "with self.detection_lock"
UpdateDetectionEnter ==
    /\ writer_pc = "idle"
    /\ \E p \in Detections : writer_arg' = p
    /\ IF Locked
       THEN detection_lock = "None" /\ detection_lock' = "writer"
       ELSE detection_lock' = detection_lock
    /\ writer_pc' = "store"
    /\ UNCHANGED <<controller_vars, camera_vars, current_detection, window_class,
                   reader_pc, reader_detection, last_write, got, render_vars,
                   stop_vars>>

\* Faulty variant of line 83: the label is stored, the confidence is not.
UpdateDetectionStoreLabelOnly ==
    /\ writer_pc = "store"
    /\ current_detection' =
          <<writer_arg[1],
            IF current_detection = None THEN 0 ELSE current_detection[2]>>
    /\ last_write' = writer_arg
    /\ writer_pc' = "exit"
    /\ UNCHANGED <<controller_vars, camera_vars, detection_lock, window_class,
                   writer_arg, reader_pc, reader_detection, got, render_vars,
                   stop_vars>>

\* line 83 (simple: line 53): self.current_detection = (class_name, confidence),
\* one store of a reference to a new tuple
UpdateDetectionStore ==
    /\ writer_pc = "store"
    /\ current_detection' = writer_arg
    /\ last_write' = writer_arg
    /\ writer_pc' = "exit"
    /\ UNCHANGED <<controller_vars, camera_vars, detection_lock, window_class,
                   writer_arg, reader_pc, reader_detection, got, render_vars,
                   stop_vars>>

\* the end of the with block, and the return
UpdateDetectionExit ==
    /\ writer_pc = "exit"
    /\ detection_lock' = IF Locked THEN "None" ELSE detection_lock
    /\ writer_arg' = None
    /\ writer_pc' = "idle"
    /\ UNCHANGED <<controller_vars, camera_vars, current_detection, window_class,
                   reader_pc, reader_detection, last_write, got, render_vars,
                   stop_vars>>

\* draw_confidence_overlay line 99 (simple: line 60)
OverlayEnter ==
    /\ reader_pc = "idle"
    /\ IF Locked
       THEN detection_lock = "None" /\ detection_lock' = "reader"
       ELSE detection_lock' = detection_lock
    /\ reader_pc' = "test"
    /\ UNCHANGED <<controller_vars, camera_vars, current_detection, window_class,
                   writer_pc, writer_arg, reader_detection, last_write, got,
                   render_vars, stop_vars>>

\* lines 100 and 102-103 (simple: 61, 63-64): if self.current_detection
OverlayTest ==
    /\ reader_pc = "test"
    /\ IF current_detection # None
       THEN reader_pc' = "unpack" /\ reader_detection' = reader_detection
       ELSE reader_pc' = "exit" /\ reader_detection' = <<"No detection", 0>>
    /\ UNCHANGED <<controller_vars, camera_vars, current_detection,
                   detection_lock, window_class, writer_pc, writer_arg,
                   last_write, got, render_vars, stop_vars>>

\* line 101 (simple: 62): class_name, confidence = self.current_detection,
\* one read of the attribute, then the tuple is unpacked
OverlayUnpack ==
    /\ reader_pc = "unpack"
    /\ reader_detection' = current_detection
    /\ reader_pc' = "exit"
    /\ UNCHANGED <<controller_vars, camera_vars, current_detection,
                   detection_lock, window_class, writer_pc, writer_arg,
                   last_write, got, render_vars, stop_vars>>

\* the end of the with block; the overlay is then drawn from the two locals
OverlayExit ==
    /\ reader_pc = "exit"
    /\ detection_lock' = IF Locked THEN "None" ELSE detection_lock
    /\ reader_pc' = "idle"
    /\ UNCHANGED <<controller_vars, camera_vars, current_detection, window_class,
                   writer_pc, writer_arg, reader_detection, last_write, got,
                   render_vars, stop_vars>>

\* CameraWindow.get_current_detection (lines 289-297), called when the lock
\* is free: a tuple has no copy(), so a filled slot raises AttributeError
\* (the with block releases the lock on the way out)
GetCurrentDetection ==
    /\ Locked
    /\ detection_lock = "None"
    /\ got' = IF current_detection # None
              THEN [outcome |-> "raised", value |-> <<"AttributeError">>,
                    slot |-> current_detection]
              ELSE [outcome |-> "returned", value |-> None, slot |-> None]
    /\ UNCHANGED <<controller_vars, camera_vars, current_detection,
                   detection_lock, window_class, writer_pc, writer_arg, reader_pc,
                   reader_detection, last_write, render_vars, stop_vars>>

InitWindow ==
    /\ Constructed
    /\ show_camera_window = FALSE
    /\ current_detection = None
    /\ window_class \in {"CameraWindow", "SimpleCameraWindow"}
    /\ SlotInit
    /\ RenderInit
    /\ StopInit

NextWindow ==
    \/ UpdateDetectionEnter
    \/ UpdateDetectionStore
    \/ UpdateDetectionExit
    \/ OverlayEnter
    \/ OverlayTest
    \/ OverlayUnpack
    \/ OverlayExit
    \/ GetCurrentDetection

SpecWindow == InitWindow /\ [][NextWindow]_vars

-----------------------------------------------------------------------------
(* CameraManager.start_camera and stop_camera (camera_manager.py lines      *)
(* 34-87), statement by statement, for the two threads that call            *)
(* stop_camera on the camera window's manager: the window thread at the     *)
(* end of run_window (camera_window.py line 262) and the controlling thread *)
(* (run_camera_window.py line 87, main_controller.py line 333).  Every      *)
(* "self.camera_process" is a fresh read of the attribute.                  *)

\* stop_camera calls a thread makes at most
MaxStopCalls == 2

slot_and_render == <<current_detection, slot_vars, render_vars>>

\* lines 61-69: Popen, is_running = True
StartCamera ==
    /\ \A t \in Threads : stop_pc[t] = "idle"
    /\ camera_process = "None"
    /\ camera_process' = "running"
    /\ cam_is_running' = TRUE
    /\ terminate_calls' = 0
    /\ UNCHANGED <<controller_vars, current_frame, slot_and_render, stop_pc,
                   stop_calls>>

\* line 77: self.is_running = False
StopFlag(t) ==
    /\ stop_pc[t] = "idle"
    /\ stop_calls[t] < MaxStopCalls
    /\ cam_is_running' = FALSE
    /\ stop_pc' = [stop_pc EXCEPT ![t] = "test"]
    /\ UNCHANGED <<controller_vars, camera_process, current_frame,
                   slot_and_render, stop_calls, terminate_calls>>

\* Faulty variant of line 79: no test of self.camera_process.
StopTestUnguarded(t) ==
    /\ stop_pc[t] = "test"
    /\ stop_pc' = [stop_pc EXCEPT ![t] = "terminate"]
    /\ UNCHANGED <<controller_vars, camera_vars, slot_and_render, stop_calls,
                   terminate_calls>>

\* line 79: if self.camera_process
StopTest(t) ==
    /\ stop_pc[t] = "test"
    /\ stop_pc' = [stop_pc EXCEPT ![t] =
                      IF camera_process # "None" THEN "terminate" ELSE "print"]
    /\ UNCHANGED <<controller_vars, camera_vars, slot_and_render, stop_calls,
                   terminate_calls>>

\* line 80: self.camera_process.terminate(); on None, AttributeError
StopTerminate(t) ==
    /\ stop_pc[t] = "terminate"
    /\ IF camera_process = "None"
       THEN /\ stop_pc' = [stop_pc EXCEPT ![t] = "raised"]
            /\ terminate_calls' = terminate_calls
       ELSE /\ stop_pc' = [stop_pc EXCEPT ![t] = "wait"]
            /\ terminate_calls' = terminate_calls + 1
    /\ UNCHANGED <<controller_vars, camera_vars, slot_and_render, stop_calls>>

\* lines 81-84: self.camera_process.wait(timeout=5), kill() on a timeout;
\* on None, AttributeError
StopWait(t) ==
    /\ stop_pc[t] = "wait"
    /\ IF camera_process = "None"
       THEN /\ stop_pc' = [stop_pc EXCEPT ![t] = "raised"]
            /\ camera_process' = camera_process
       ELSE /\ stop_pc' = [stop_pc EXCEPT ![t] = "clear"]
            /\ camera_process' = "exited"
    /\ UNCHANGED <<controller_vars, cam_is_running, current_frame,
                   slot_and_render, stop_calls, terminate_calls>>

\* line 85: self.camera_process = None
StopClear(t) ==
    /\ stop_pc[t] = "clear"
    /\ camera_process' = "None"
    /\ stop_pc' = [stop_pc EXCEPT ![t] = "print"]
    /\ UNCHANGED <<controller_vars, cam_is_running, current_frame,
                   slot_and_render, stop_calls, terminate_calls>>

\* line 87: print, return
StopReturn(t) ==
    /\ stop_pc[t] = "print"
    /\ stop_pc' = [stop_pc EXCEPT ![t] = "idle"]
    /\ stop_calls' = [stop_calls EXCEPT ![t] = stop_calls[t] + 1]
    /\ UNCHANGED <<controller_vars, camera_vars, slot_and_render,
                   terminate_calls>>

InitCamera ==
    /\ Constructed
    /\ show_camera_window = FALSE
    /\ current_detection = None
    /\ ExtInit

NextCamera ==
    \/ StartCamera
    \/ GetFrame
    \/ CameraDies
    \/ \E t \in Threads :
          \/ StopFlag(t)
          \/ StopTest(t)
          \/ StopTerminate(t)
          \/ StopWait(t)
          \/ StopClear(t)
          \/ StopReturn(t)

SpecCamera == InitCamera /\ [][NextCamera]_vars

-----------------------------------------------------------------------------
(* The draw functions: draw_detection_info (main_controller.py lines        *)
(* 146-211) behind the gate of lines 300-304, and draw_confidence_overlay   *)
(* with draw_confidence_bar (camera_window.py lines 85-184,                 *)
(* camera_window_simple.py lines 55-116).  A frame is a numpy array, here a *)
(* buffer with an identity; the panel is what has been drawn on it.  The    *)
(* second, short-lived copy the functions blend from ("overlay") is not     *)
(* kept.  int() of a float product is modelled as the exact quotient.       *)

main_bar_width == 200        \* bar_width of draw_detection_info (line 193)
window_bar_width == 300      \* bar_width of draw_confidence_bar (line 153)

\* r > c for a fraction r and a number of hundredths c
RatGT(r, c) == r.num > c * r.den

\* int(bar_width * confidence) (main_controller.py line 203,
\* camera_window.py line 163)
confidence_width(width, conf) == (width * conf.num) \div (100 * conf.den)

\* camera_window.py line 116
status_text(conf) == IF RatGT(conf, 50) THEN "DETECTED" ELSE "NO DETECTION"

\* camera_window.py lines 119-124
text_color(conf) ==
    IF RatGT(conf, 70) THEN "green"
    ELSE IF RatGT(conf, 50) THEN "yellow" ELSE "red"

\* Faulty variant of lines 164-169: ">=" instead of ">".
bar_color_inclusive(conf) ==
    IF RatGE(conf, 70) THEN "green"
    ELSE IF RatGE(conf, 50) THEN "yellow" ELSE "red"

\* camera_window.py lines 164-169
bar_color(conf) ==
    IF RatGT(conf, 70) THEN "green"
    ELSE IF RatGT(conf, 50) THEN "yellow" ELSE "red"

\* the smallest unused buffer
NewBuffer(bufs) ==
    CHOOSE i \in 1..MaxBuffers :
        /\ bufs[i] = FreeBuffer
        /\ \A j \in 1..MaxBuffers : bufs[j] = FreeBuffer => i <= j

\* Faulty variant of frame.copy(): the same array under another name.
frame_copy_alias(bufs, f) == [id |-> f, bufs |-> bufs]

\* numpy's frame.copy() (main_controller.py line 160, camera_window.py
\* line 95, camera_window_simple.py line 57): a new array, same contents
frame_copy(bufs, f) ==
    [id |-> NewBuffer(bufs),
     bufs |-> [bufs EXCEPT ![NewBuffer(bufs)] = bufs[f]]]

\* what the camera delivers
Images == {"image1", "image2"}

\* the confidences of spec.md's banding check, in hundredths
RenderConfs == {0, 50, 51, 70, 71, 100}
RenderDetections == {<<"A", c>> : c \in RenderConfs}

HasFree == \E i \in 1..MaxBuffers : buffers[i] = FreeBuffer
Frames == {i \in 1..MaxBuffers : buffers[i] # FreeBuffer}

\* get_latest_frame (camera_manager.py lines 118-126) hands out a new array
CaptureFrame ==
    /\ HasFree
    /\ \E img \in Images :
          buffers' = [buffers EXCEPT ![NewBuffer(buffers)] =
                         [image |-> img, panel |-> NoPanel]]
    /\ UNCHANGED <<controller_vars, camera_vars, current_detection, slot_vars,
                   render_frame, render_before, display_frame, stop_vars>>

\* main_controller.py lines 300-304 and 146-211, for a smoothed detection det
DrawDetectionInfo(f, det) ==
    /\ HasFree
    /\ f \in Frames
    /\ LET given == Rat(det[2], 1)
           drawn == IF RatGE(given, confidence_threshold)
                    THEN <<det[1], given>>
                    ELSE NoDetection
           c == frame_copy(buffers, f)
       IN  /\ buffers' =
                 [c.bufs EXCEPT ![c.id].panel =
                     [by |-> "main", label |-> drawn[1], conf |-> drawn[2],
                      status |-> "", text_color |-> "green",
                      bar_color |-> "green",
                      bar_fill |-> confidence_width(main_bar_width, drawn[2])]]
           /\ display_frame' = c.id
    /\ render_frame' = f
    /\ render_before' = buffers[f]
    /\ UNCHANGED <<controller_vars, camera_vars, current_detection, slot_vars,
                   stop_vars>>

\* draw_confidence_overlay and draw_confidence_bar; SimpleCameraWindow fills
\* the bar with text_color (camera_window_simple.py line 102)
DrawConfidenceOverlay(f) ==
    /\ HasFree
    /\ f \in Frames
    /\ LET det == IF current_detection # None THEN current_detection
                  ELSE <<"No detection", 0>>
           conf == Rat(det[2], 1)
           c == frame_copy(buffers, f)
       IN  /\ buffers' =
                 [c.bufs EXCEPT ![c.id].panel =
                     [by |-> "window", label |-> det[1], conf |-> conf,
                      status |-> status_text(conf),
                      text_color |-> text_color(conf),
                      bar_color |-> IF Locked THEN bar_color(conf)
                                    ELSE text_color(conf),
                      bar_fill |-> confidence_width(window_bar_width, conf)]]
           /\ display_frame' = c.id
    /\ render_frame' = f
    /\ render_before' = buffers[f]
    /\ UNCHANGED <<controller_vars, camera_vars, current_detection, slot_vars,
                   stop_vars>>

InitRender ==
    /\ Constructed
    /\ show_camera_window = FALSE
    /\ current_detection \in {None} \cup RenderDetections
    /\ window_class \in {"CameraWindow", "SimpleCameraWindow"}
    /\ SlotInit
    /\ RenderInit
    /\ StopInit

NextRender ==
    \/ CaptureFrame
    \/ \E f \in 1..MaxBuffers :
          \/ \E det \in RenderDetections : DrawDetectionInfo(f, det)
          \/ DrawConfidenceOverlay(f)

SpecRender == InitRender /\ [][NextRender]_vars

-----------------------------------------------------------------------------
(* Properties *)

Min(a, b) == IF a <= b THEN a ELSE b

\* the samples of h at the indices I, in the order of h, as (name, conf)
PickSeq(h, I) ==
    [k \in 1..Cardinality(I) |->
        LET i == CHOOSE i \in I : Cardinality({j \in I : j <= i}) = k
        IN  <<h[i][1], h[i][2]>>]

\* number of samples of r that carry the label
Votes(r, label) == Cardinality({i \in 1..Len(r) : r[i][1] = label})

\* index of the first sample of r that carries the label
FirstVote(r, label) ==
    CHOOSE i \in 1..Len(r) :
        r[i][1] = label /\ \A j \in 1..(i - 1) : r[j][1] # label

RECURSIVE SumOver(_, _)
SumOver(h, I) ==
    IF I = {} THEN 0
    ELSE LET i == CHOOSE i \in I : TRUE IN h[i][2] + SumOver(h, I \ {i})

\* the smoothing step has just run on detection_history at time smooth_time
Smoothed == pc = "draw"

\* indices of the samples younger than the window at the time of smoothing
Younger ==
    {i \in 1..Len(detection_history) :
        smooth_time - detection_history[i][3] < smoothing_window}

\* indices of the samples with observed_at >= now - window_seconds
NotOlder ==
    {i \in 1..Len(detection_history) :
        detection_history[i][3] >= smooth_time - smoothing_window}

\* C1: in every reachable state the detection history holds at most
\* max_history samples.
C1_HistoryBounded == Len(detection_history) <= max_history

C1_Witness ==
    Len(appended) > max_history /\ Len(detection_history) = max_history

\* C2: the history holds exactly the last min(k, max_history) of the k samples
\* appended so far, in insertion order.
C2_FifoEviction ==
    LET k == Len(appended)
        m == Min(k, max_history)
    IN  detection_history = SubSeq(appended, k - m + 1, k)

C2_Witness ==
    /\ Len(appended) >= max_history + 2
    /\ detection_history[1] = appended[Len(appended) - max_history + 1]
    /\ detection_history[1] # appended[1]

\* C3: when no sample of the history lies inside the trailing window (empty
\* history, or every sample older than the window), smoothing returns
\* ("No detection", 0.0).
C3_EmptyWindow ==
    (Smoothed /\ NotOlder = {}) =>
        <<display_class, display_confidence>> = NoDetection

C3_Witness ==
    Smoothed /\ detection_history # <<>> /\ NotOlder = {}
    /\ display_class = "No detection"

\* C4 as claimed: the window of smoothing holds exactly the samples with
\* observed_at >= now - window_seconds, in order (age exactly 2.0 s included).
C4_WindowInclusive ==
    Smoothed => recent = PickSeq(detection_history, NotOlder)

\* C4 as amended: the window of smoothing holds exactly the samples with
\* now - observed_at < window_seconds, in their original order; a sample
\* whose age is exactly window_seconds is left out of the vote.
C4_WindowStrict ==
    Smoothed => recent = PickSeq(detection_history, Younger)

C4_Witness ==
    /\ Smoothed
    /\ \E i \in 1..Len(detection_history) :
          smooth_time - detection_history[i][3] = smoothing_window
    /\ Younger # {}
    /\ Len(recent) < Len(detection_history)

\* C5: for a non-empty window, no label of the window has more samples in the
\* window than the label smoothing returns, whatever the confidences.
C5_Majority ==
    (Smoothed /\ recent # <<>>) =>
        \A i \in 1..Len(recent) :
            Votes(recent, display_class) >= Votes(recent, recent[i][1])

C5_Witness ==
    /\ Smoothed
    /\ display_class = "A"
    /\ Votes(recent, "A") = 2
    /\ Votes(recent, "B") = 1
    /\ recent[Len(recent)] = <<"B", 95>>
    /\ \A i \in 1..Len(recent) : recent[i][1] = "A" => recent[i][2] < 95

\* the labels with the highest number of samples in the window
Tied ==
    {recent[i][1] : i \in {i \in 1..Len(recent) :
        \A j \in 1..Len(recent) :
            Votes(recent, recent[i][1]) >= Votes(recent, recent[j][1])}}

\* C6: when labels tie for the highest count in the window, smoothing returns
\* the tied label whose first sample in the window comes earliest.
C6_TieBreakFirst ==
    (Smoothed /\ Cardinality(Tied) >= 2) =>
        /\ display_class \in Tied
        /\ \A l \in Tied : FirstVote(recent, display_class) <= FirstVote(recent, l)

C6_Witness ==
    /\ Smoothed
    /\ Cardinality(Tied) >= 2
    /\ Len(recent) = Len(detection_history)
    /\ display_class = recent[1][1]
    /\ recent[Len(recent)][1] # display_class

\* indices of the in-window samples of the history that carry the returned label
MajoritySamples == {i \in Younger : detection_history[i][1] = display_class}

\* C7: the smoothed confidence is the arithmetic mean of the confidences of
\* exactly the in-window samples that carry the returned label.
C7_MeanOfMajority ==
    (Smoothed /\ recent # <<>>) =>
        /\ MajoritySamples # {}
        /\ display_confidence.den > 0
        /\ display_confidence.num * Cardinality(MajoritySamples)
             = display_confidence.den * SumOver(detection_history, MajoritySamples)

C7_Witness ==
    /\ Smoothed
    /\ Cardinality(MajoritySamples) = 2
    /\ Len(recent) = 3
    /\ \E i, j \in MajoritySamples :
          detection_history[i][2] # detection_history[j][2]
    /\ \E i \in Younger : detection_history[i][2] = 95 /\ i \notin MajoritySamples
    /\ 2 * display_confidence.num = 170 * display_confidence.den

C7_WitnessOneLabel ==
    /\ Smoothed
    /\ Len(recent) >= 2
    /\ Cardinality(MajoritySamples) = Len(recent)
    /\ Len(recent) < Len(detection_history)

\* C8: computing the smoothed detection leaves the history as it was, and the
\* history changes only by the append of the inference step.
C8_SmoothingReadsOnly ==
    [][ /\ (pc = "smooth" => detection_history' = detection_history)
        /\ (detection_history' # detection_history =>
              /\ pc = "update"
              /\ detection_history' \in
                    { Append(detection_history, <<class_name, confidence, clock>>),
                      Tail(Append(detection_history, <<class_name, confidence, clock>>)) })
      ]_vars

C8_Witness ==
    /\ Smoothed
    /\ Len(detection_history) >= 2
    /\ Len(recent) < Len(detection_history)

\* C9: the timestamps of the history are non-decreasing from head to tail.
C9_TimestampsSorted ==
    \A i, j \in 1..Len(detection_history) :
        i <= j => detection_history[i][3] <= detection_history[j][3]

C9_Witness ==
    /\ Len(detection_history) = max_history
    /\ Len(appended) > max_history
    /\ detection_history[1][3] < detection_history[max_history][3]

\* C10: with a frame on every tick and ticks every 0.05 s from the start of
\* the loop, the classifier is invoked at most 4 (= 2.0 s / 0.5 s) times
\* during the first 2.0 s.
C10_Throttled ==
    (clock - StartTime < RunLength) =>
        predict_calls <= RunLength \div detection_interval

C10_Witness ==
    /\ clock - StartTime < RunLength
    /\ predict_calls = RunLength \div detection_interval
    /\ Len(appended) = predict_calls

-----------------------------------------------------------------------------
(* Properties of the detection loop *)

\* a step of the controller's own thread (the camera process and the frame
\* slot change without moving it)
Moves == pc' # pc

\* a KeyboardInterrupt caught inside the try block ends the iteration
StoppedByInterrupt == pc' = "top" /\ ~is_running'

\* what lines 300-304 draw for a smoothed detection
Gate(cls, conf) ==
    IF conf.num >= confidence_threshold * conf.den THEN <<cls, conf>>
    ELSE <<"No detection", [num |-> 0, den |-> 1]>>

\* C11: the classifier is invoked only when at least detection_interval has
\* passed since the last recorded inference time; an invocation that returns
\* appends exactly one sample and records the tick's time as the last inference
\* time, which nothing else changes.
C11_ThrottledInference ==
    [][ /\ (predict_calls' # predict_calls =>
              /\ predict_calls' = predict_calls + 1
              /\ pc = "predict"
              /\ current_time - last_detection_time >= detection_interval)
        /\ (pc = "update" /\ pc' = "smooth" =>
              /\ appended' = Append(appended, <<class_name, confidence, clock>>)
              /\ Len(detection_history') = Min(Len(detection_history) + 1, max_history)
              /\ detection_history'[Len(detection_history')] =
                    <<class_name, confidence, clock>>
              /\ last_detection_time' = current_time)
        /\ (last_detection_time' # last_detection_time => pc = "update")
        /\ (appended' # appended => pc = "update" /\ pc' = "smooth")
      ]_vars

C11_Witness ==
    /\ pc = "smooth"
    /\ predict_calls = 2
    /\ Len(appended) = 2
    /\ last_detection_time = current_time
    /\ last_detection_time >= StartTime + detection_interval

\* C12: an iteration that got a frame goes on, whether or not detection was
\* due, to recompute the smoothed detection and to draw and show it (unless
\* the user interrupts it, or drawing or showing raises).
C12_RenderEveryFrame ==
    [][ /\ (pc = "have_frame" /\ Moves => pc' \in {"predict", "smooth"} \/ StoppedByInterrupt)
        /\ (pc = "predict" /\ Moves => pc' = "update" \/ StoppedByInterrupt)
        /\ (pc = "update" /\ Moves => pc' = "smooth" \/ StoppedByInterrupt)
        /\ (pc = "smooth" /\ Moves =>
              \/ /\ pc' = "draw"
                 /\ <<display_class', display_confidence'>> =
                       get_smoothed_detection(detection_history, clock)
              \/ StoppedByInterrupt)
        /\ (pc = "draw" /\ Moves =>
              \/ /\ pc' = "top"
                 /\ window_open'
                 /\ shown' = Gate(display_class, display_confidence)
              \/ pc' = "handler"
              \/ StoppedByInterrupt)
      ]_vars

C12_Witness ==
    /\ pc = "draw"
    /\ class_name = "None"
    /\ predict_calls >= 1
    /\ display_class = "A"
    /\ window_open

\* C13: an iteration that gets no frame only sleeps and starts over: no
\* classifier call, history and last inference time unchanged, nothing shown.
C13_NoFrameSkips ==
    [][ /\ (pc = "top" /\ is_running /\ current_frame = "None" /\ Moves =>
              /\ pc' = "sleep"
              /\ UNCHANGED <<detection_history, last_detection_time,
                             predict_calls, shown, window_open>>)
        /\ (pc = "sleep" /\ Moves =>
              /\ pc' = "top"
              /\ UNCHANGED <<detection_history, last_detection_time,
                             predict_calls, shown, window_open>>)
      ]_vars

C13_Witness ==
    pc = "sleep" /\ is_running /\ clock > StartTime /\ frame = "None"

\* C14: an exception of the classifier (swallowed by predict, which returns
\* "Error") or of the renderer leaves is_running set, and the loop goes back
\* to the top for the next iteration.
C14_ExceptionsDoNotStop ==
    /\ [](pc = "handler" => is_running)
    /\ [][ /\ (pc = "predict" /\ class_name' = "Error" =>
                 pc' = "update" /\ is_running')
           /\ (pc = "draw" /\ pc' = "handler" => is_running')
           /\ (pc = "handler" /\ Moves =>
                 (pc' = "top" /\ is_running') \/ pc' = "raised")
         ]_vars

C14_Witness ==
    pc = "handler" /\ is_running /\ predict_calls >= 1 /\ window_open

\* C15: an iteration whose predict call failed leaves the detection history
\* as it was, and what is shown stays what it was.
C15_FailedPredictNoSample ==
    [][ /\ (pc = "update" /\ class_name = "Error" =>
              detection_history' = detection_history)
        /\ (pc = "draw" /\ class_name = "Error" /\ pc' = "top" /\ is_running' =>
              shown' = shown)
      ]_vars

\* C16: once the camera process has exited, the running loop does not poll
\* again: its next step is the teardown.
C16_SourceFailureStops ==
    [][ (pc = "top" /\ is_running /\ camera_process = "exited" /\ Moves) =>
            pc' = "cleanup"
      ]_vars

\* C17: once is_running is cleared the loop is at its top, and from there it
\* goes to the teardown and stops, with or without a frame in the slot.
C17_StopObserved ==
    /\ [](~is_running =>
            pc \in {"idle", "init_model", "init_window", "failed",
                    "top", "cleanup", "stopped"})
    /\ [][ /\ (pc = "top" /\ ~is_running /\ Moves => pc' = "cleanup")
           /\ (pc = "cleanup" /\ Moves => pc' = "stopped")
         ]_vars

C17_Witness ==
    pc = "cleanup" /\ ~is_running /\ current_frame = "F" /\ window_open

C17_WitnessNoFrame ==
    pc = "stopped" /\ ~is_running /\ current_frame = "None"

\* C18: whenever run_detection_loop has returned or propagated, the camera
\* and the windows have been released.
C18_ReleasedOnExit ==
    pc \in {"stopped", "raised"} =>
        camera_process = "None" /\ ~cam_is_running /\ ~window_open

\* the control points of run_detection_loop
LoopPoints ==
    {"top", "sleep", "have_frame", "predict", "update", "smooth", "draw",
     "handler", "cleanup"}

\* C19: the loop is entered only with the camera started and the model loaded;
\* a failed start-up stays failed, with no classifier call and no sample.
C19_LoopNeedsBothReady ==
    /\ [](pc \in LoopPoints => cam_is_running /\ model_loaded)
    /\ [](pc = "failed" =>
            /\ ~is_running
            /\ predict_calls = 0
            /\ appended = <<>>
            /\ detection_history = <<>>)
    /\ [][pc = "failed" => pc' = "failed"]_vars

C19_Witness ==
    pc = "failed" /\ cam_is_running /\ ~model_loaded

\* C20: when run returns failure, the camera has been stopped.
C20_StartupAbortReleases ==
    pc = "failed" => camera_process = "None" /\ ~cam_is_running

-----------------------------------------------------------------------------
(* Properties of the camera window's detection slot *)

\* C23: every pair the window thread takes from the slot is the pair of one
\* update_detection call, and it is the pair stored last; with nothing stored
\* yet it is ("No detection", 0.0).
C23_NoTornDetection ==
    [][ reader_detection' # reader_detection =>
          IF last_write = None
          THEN reader_detection' = <<"No detection", 0>>
          ELSE reader_detection' = last_write /\ reader_detection' \in Detections
      ]_vars

C23_Witness ==
    /\ window_class = "SimpleCameraWindow"
    /\ reader_pc = "exit"
    /\ reader_detection = <<"B", 80>>
    /\ writer_pc = "exit"
    /\ writer_arg = <<"B", 80>>

C23_WitnessLocked ==
    /\ window_class = "CameraWindow"
    /\ detection_lock = "reader"
    /\ reader_pc = "exit"
    /\ reader_detection = <<"B", 80>>

\* C24: what the controller puts into the camera window's slot is the
\* smoothed detection of the history at that time.
C24_WindowGetsSmoothed ==
    [][ current_detection' # current_detection =>
          LET s == get_smoothed_detection(detection_history', clock')
          IN  /\ current_detection'[1] = s[1]
              /\ current_detection'[2] * s[2].den = s[2].num
      ]_vars

\* C26: get_current_detection returns what the slot holds, None before the
\* first update_detection and the stored pair after it, and does not raise.
C26_GetCurrentDetection ==
    got.outcome # "unset" =>
        got.outcome = "returned" /\ got.value = got.slot

-----------------------------------------------------------------------------
(* Properties of stop_camera *)

\* the camera manager is stopped: not running, no camera process
Stopped == ~cam_is_running /\ camera_process = "None"

\* thread t takes a step of stop_camera while no other thread is inside it
StepsAlone(t) ==
    /\ stop_pc'[t] # stop_pc[t]
    /\ \A u \in Threads \ {t} : stop_pc[u] = "idle"

\* C25: a stop_camera call on a stopped manager, with no other call going on,
\* goes from the flag to the test to the return: it does not touch the
\* process, does not raise and leaves the manager stopped, its frame as it was.
C25_StopIdempotent ==
    [][ \A t \in Threads :
          (StepsAlone(t) /\ Stopped /\ stop_pc[t] \in {"idle", "test", "print"}) =>
              /\ Stopped'
              /\ stop_pc'[t] \in {"test", "print", "idle"}
              /\ stop_pc[t] = "test" => stop_pc'[t] = "print"
              /\ UNCHANGED <<terminate_calls, current_frame>>
      ]_vars

C25_Witness ==
    /\ stop_calls["main"] = 2
    /\ stop_calls["window"] = 0
    /\ stop_pc["main"] = "idle"
    /\ stop_pc["window"] = "idle"
    /\ terminate_calls = 1
    /\ Stopped

\* C28: with stop_camera called from two threads, no call raises on a
\* camera_process the other has cleared, and terminate() is called once.
C28_ConcurrentStop ==
    /\ \A t \in Threads : stop_pc[t] # "raised"
    /\ terminate_calls <= 1

\* reachable: one of the two calls ends in AttributeError
C28_Raised ==
    \E t \in Threads : stop_pc[t] = "raised"

-----------------------------------------------------------------------------
(* Properties of the draw functions *)

Panels(who) == {i \in 1..MaxBuffers : buffers[i].panel.by = who}

\* C21: after a draw call the frame it was given holds what it held at the
\* call, and the result is another buffer, holding that image and the panel.
C21_InputFrameUntouched ==
    render_frame # 0 =>
        /\ buffers[render_frame] = render_before
        /\ display_frame # render_frame
        /\ buffers[display_frame].image = render_before.image
        /\ buffers[display_frame].panel.by \in {"main", "window"}

C21_Witness ==
    /\ render_frame # 0
    /\ buffers[render_frame].panel = NoPanel
    /\ buffers[display_frame].panel.by = "window"
    /\ buffers[display_frame].panel.label = "A"
    /\ \E i \in Panels("main") : i # display_frame

\* the band of a confidence: high above 0.7, medium above 0.5, else low
Band(conf) ==
    IF RatGT(conf, 70) THEN "high"
    ELSE IF RatGT(conf, 50) THEN "medium" ELSE "low"

BandColor(band) ==
    IF band = "high" THEN "green"
    ELSE IF band = "medium" THEN "yellow" ELSE "red"

\* C22: on every frame the camera window has drawn, the text colour and the
\* bar colour are the colour of the confidence's band, and the status is
\* DETECTED exactly when the band is high or medium.
C22_BandsAgree ==
    \A i \in Panels("window") :
        LET p == buffers[i].panel
        IN  /\ p.text_color = BandColor(Band(p.conf))
            /\ p.bar_color = BandColor(Band(p.conf))
            /\ (p.status = "DETECTED") <=> (Band(p.conf) \in {"high", "medium"})

C22_Witness ==
    /\ window_class = "CameraWindow"
    /\ \E i \in Panels("window") :
          /\ buffers[i].panel.conf = Rat(70, 1)
          /\ buffers[i].panel.bar_color = "yellow"
          /\ buffers[i].panel.status = "DETECTED"

\* C29: the main display draws the smoothed label and confidence when the
\* confidence is at least confidence_threshold and ("No detection", 0.0)
\* otherwise, so it never shows a label below the threshold; and whenever it
\* shows a label, the camera window's status for the same confidence is
\* DETECTED (the converse, DETECTED only with a label shown, follows from
\* the first part).
C29_GateAgreesWithStatus ==
    \A i \in Panels("main") :
        LET p == buffers[i].panel
        IN  /\ p.label # "No detection" => RatGE(p.conf, confidence_threshold)
            /\ p.label = "No detection" => p.conf = Rat(0, 1)
            /\ \A j \in Panels("window") :
                  buffers[j].panel.conf = p.conf /\ p.label # "No detection" =>
                      buffers[j].panel.status = "DETECTED"

-----------------------------------------------------------------------------
(* Range of the smoothed confidence *)

\* the confidences of the in-window samples that carry the returned label
ReturnedConfs == {recent[i][2] : i \in {j \in 1..Len(recent) : recent[j][1] = display_class}}

-----------------------------------------------------------------------------
(* The frame slot when only the repository's own code runs *)

\* C27: with the camera started and its process alive, the running loop gets
\* a frame: it is not still sleeping on an empty slot when the time the model
\* covers runs out.
C27_LoopGetsFrame ==
    ~ (/\ pc = "sleep"
       /\ is_running
       /\ cam_is_running
       /\ camera_process = "running"
       /\ clock >= MaxTime - sleep_time)

\* what holds instead: nothing the loop can reach writes the slot, and the
\* loop never gets past its sleep
C27_SlotStaysEmpty ==
    /\ current_frame = "None"
    /\ pc \notin {"have_frame", "predict", "update", "smooth", "draw"}
    /\ predict_calls = 0
    /\ ~window_open

====
